---- MODULE Spec2Model ----
(***************************************************************************)
(* A model of the mii library: the record scanner of extractor.py, the     *)
(* field decoder of reader.py and the timestamp decoder of timestamp.py.   *)
(* Bytes are integers 0..255, byte strings are sequences of bytes.         *)
(***************************************************************************)
EXTENDS Integers, Sequences, FiniteSets, TLC

(***************************************************************************)
(* Bounds of the model.                                                    *)
(***************************************************************************)
MaxSrcLen == 5
MaxSize == 2
MaxOffset == 1
MaxLimit == 2
MaxPad == 1

(***************************************************************************)
(* Generic helpers.                                                        *)
(***************************************************************************)
Min(a, b) == IF a < b THEN a ELSE b

SeqsUpTo(S, n) == UNION { [1..k -> S] : k \in 0..n }

\* bytes(n) / bytearray(n): n zero bytes
Zeros(n) == [i \in 1..n |-> 0]

\* b[lo:hi] of Python, clamped to the length of b (lo, hi >= 0)
Slice(b, lo, hi) ==
    LET h == Min(hi, Len(b))
    IN  IF lo >= h THEN <<>> ELSE [i \in 1..(h - lo) |-> b[lo + i]]

(***************************************************************************)
(* Number formatting and parsing, over sequences of one-character strings. *)
(***************************************************************************)
DigitChars == <<"0", "1", "2", "3", "4", "5", "6", "7", "8", "9",
                "a", "b", "c", "d", "e", "f">>
UpperChars == <<"0", "1", "2", "3", "4", "5", "6", "7", "8", "9",
                "A", "B", "C", "D", "E", "F">>

\* the digits of n >= 0 in the base, most significant first
RECURSIVE DigitsIn(_, _)
DigitsIn(n, base) ==
    IF n < base THEN <<DigitChars[n + 1]>>
    ELSE Append(DigitsIn(n \div base, base), DigitChars[(n % base) + 1])

\* format(n, "0<width>b"), f"{n:0<width>d}", "%0<width>x": at least width digits
FormatInt(n, base, width) ==
    LET d == DigitsIn(n, base)
    IN  IF Len(d) >= width THEN d ELSE [i \in 1..(width - Len(d)) |-> "0"] \o d

\* "".join(chars)
RECURSIVE Join(_)
Join(chars) == IF chars = <<>> THEN "" ELSE Head(chars) \o Join(Tail(chars))

\* the value of one digit character, either case
CharValue(c) ==
    CHOOSE v \in 0..15 : DigitChars[v + 1] = c \/ UpperChars[v + 1] = c

\* int(chars, base) for a non-empty digit string
RECURSIVE ParseInt(_, _)
ParseInt(chars, base) ==
    IF Len(chars) = 1 THEN CharValue(chars[1])
    ELSE ParseInt(SubSeq(chars, 1, Len(chars) - 1), base) * base
         + CharValue(chars[Len(chars)])

(***************************************************************************)
(* extractor.py: the record scanner.                                       *)
(***************************************************************************)
VARIABLES
    mii_type,        \* the variant: OFFSET, SIZE, LIMIT, PADDING, PREFIX
    source,          \* the bytes of source_file
    source_exists,   \* whether source_file exists when the scan starts
    denied,          \* filesystem accesses the system rejects for access rights
    pc,              \* position of extract_miis_from_type
    pos,             \* read position of infile
    mii_count,       \* sequence counter
    is_active,
    extracted_files, \* the list that is returned
    fs,              \* files under output_dir: path -> content
    dir_exists,      \* whether output_dir exists
    raised,          \* the exception that left the function, or "none"
    written          \* history: every outfile.write, in order

scanVars == <<mii_type, source, source_exists, denied, pc, pos, mii_count,
              is_active, extracted_files, fs, dir_exists, raised, written>>

\* reader.py and timestamp.py: the file at hand and the last function applied
VARIABLES
    data,   \* MiiFileReader.data, the bytes of the .mii file
    call,   \* the function applied last, or "none"
    arg,    \* its argument
    ret     \* what it returned or raised

callVars == <<data, call, arg, ret>>

\* main.py: the extract command
VARIABLES
    type_option,     \* the value of --type, or None
    cli_pc,          \* position of the extract command
    mii_enum,        \* the variant at hand, by its place in MiiType
    total_extracted,
    exit_status,     \* the exit status of the process, -1 while it runs
    outcomes         \* history: how every extract_miis_from_type call ended

cliVars == <<type_option, cli_pc, mii_enum, total_extracted, exit_status,
             outcomes>>

vars == <<mii_type, source, source_exists, denied, pc, pos, mii_count,
          is_active, extracted_files, fs, dir_exists, raised, written,
          data, call, arg, ret,
          type_option, cli_pc, mii_enum, total_extracted, exit_status,
          outcomes>>

ScanBytes == {0, 1}
PadBytes == {0, 255}
Prefixes == {"WII_PL", "3DS_MA"}
output_dir == "out"

\* the file name numbered from 1
MiiName_FromOne(prefix, n) == prefix \o Join(FormatInt(n + 1, 10, 5)) \o ".mii"

\* f"{mii_type.PREFIX}{mii_count:05d}.mii"
MiiName(prefix, n) == prefix \o Join(FormatInt(n, 10, 5)) \o ".mii"

\* output_dir / mii_name
OutputPath(prefix, n) == output_dir \o "/" \o MiiName(prefix, n)

\* infile.read(size) at position p: at most size bytes, fewer at the end
Read(src, p, size) == Slice(src, p, p + size)

\* the comparison made against a buffer of LIMIT bytes instead of SIZE bytes
IsEmptyMii_LimitSized(mii_data) == mii_data = Zeros(mii_type.LIMIT)

\* mii_data == empty_mii, with empty_mii = bytearray(mii_type.SIZE)
IsEmptyMii(mii_data) == mii_data = Zeros(mii_type.SIZE)

\* the loop condition with <= for <
LoopCond_OffByOne == is_active /\ mii_count <= mii_type.LIMIT

\* the loop condition of the scan
LoopCond == is_active /\ mii_count < mii_type.LIMIT

\* the padding put before the record
FileContent_PaddingFirst(mii_data) == mii_type.PADDING \o mii_data

\* mii_data + mii_padding
FileContent(mii_data) == mii_data \o mii_type.PADDING

MiiTypes ==
    [OFFSET : 0..MaxOffset, SIZE : 1..MaxSize, LIMIT : 0..MaxLimit,
     PADDING : SeqsUpTo(PadBytes, MaxPad), PREFIX : Prefixes]

\* what output_dir holds before the scan: nothing (the directory is absent
\* or empty) or a file left by an earlier run under the first name
StaleContent == <<9>>
InitialDirs(prefix) ==
    { [exists |-> FALSE, files |-> <<>>],
      [exists |-> TRUE, files |-> <<>>],
      [exists |-> TRUE, files |-> (OutputPath(prefix, 0) :> StaleContent)] }

Denials == { {}, {"mkdir"}, {"open"}, {"write"} }

ScanInit ==
    /\ mii_type \in MiiTypes
    /\ source \in SeqsUpTo(ScanBytes, MaxSrcLen)
    /\ source_exists \in BOOLEAN
    /\ denied \in Denials
    /\ pc = "start"
    /\ pos = 0
    /\ mii_count = 0
    /\ is_active = TRUE
    /\ extracted_files = <<>>
    /\ \E d \in InitialDirs(mii_type.PREFIX) :
          /\ fs = d.files
          /\ dir_exists = d.exists
    /\ raised = "none"
    /\ written = <<>>

\* the directory made before the source is looked for
StartNotFound_MkdirFirst ==
    /\ pc = "start"
    /\ ~source_exists
    /\ pc' = "raised"
    /\ raised' = "MiiExtractionError"
    /\ dir_exists' = TRUE
    /\ UNCHANGED <<mii_type, source, source_exists, denied, pos, mii_count,
                   is_active, extracted_files, fs, written>>
    /\ UNCHANGED <<callVars, cliVars>>

\* lines 33-34: the source does not exist
StartNotFound ==
    /\ pc = "start"
    /\ ~source_exists
    /\ pc' = "raised"
    /\ raised' = "MiiExtractionError"
    /\ UNCHANGED <<mii_type, source, source_exists, denied, pos, mii_count,
                   is_active, extracted_files, fs, dir_exists, written>>
    /\ UNCHANGED <<callVars, cliVars>>

\* line 42: output_dir.mkdir is rejected, outside the try block
StartMkdirDenied ==
    /\ pc = "start"
    /\ source_exists
    /\ ~dir_exists
    /\ "mkdir" \in denied
    /\ pc' = "raised"
    /\ raised' = "PermissionError"
    /\ mii_count' = 0
    /\ is_active' = TRUE
    /\ extracted_files' = <<>>
    /\ UNCHANGED <<mii_type, source, source_exists, denied, pos, fs,
                   dir_exists, written>>
    /\ UNCHANGED <<callVars, cliVars>>

\* line 45: open(source_file) is rejected, inside the try block
StartOpenDenied ==
    /\ pc = "start"
    /\ source_exists
    /\ dir_exists \/ "mkdir" \notin denied
    /\ "open" \in denied
    /\ dir_exists' = TRUE
    /\ pc' = "raised"
    /\ raised' = "MiiExtractionError"
    /\ mii_count' = 0
    /\ is_active' = TRUE
    /\ extracted_files' = <<>>
    /\ UNCHANGED <<mii_type, source, source_exists, denied, pos, fs, written>>
    /\ UNCHANGED <<callVars, cliVars>>

\* lines 31-46: the source exists, the directory is there, infile is open
StartOk ==
    /\ pc = "start"
    /\ source_exists
    /\ dir_exists \/ "mkdir" \notin denied
    /\ "open" \notin denied
    /\ dir_exists' = TRUE
    /\ mii_count' = 0
    /\ is_active' = TRUE
    /\ extracted_files' = <<>>
    /\ pos' = mii_type.OFFSET
    /\ pc' = "loop"
    /\ UNCHANGED <<mii_type, source, source_exists, denied, fs, raised, written>>
    /\ UNCHANGED <<callVars, cliVars>>

\* the short read noticed but is_active left as it was
ScanEof_StaysActive ==
    /\ pc = "loop"
    /\ LoopCond
    /\ LET mii_data == Read(source, pos, mii_type.SIZE)
       IN  /\ Len(mii_data) < mii_type.SIZE
           /\ pos' = pos + Len(mii_data)
    /\ UNCHANGED <<mii_type, source, source_exists, denied, pc, mii_count,
                   is_active, extracted_files, fs, dir_exists, raised, written>>
    /\ UNCHANGED <<callVars, cliVars>>

\* lines 49-53: a short read ends the scan
ScanEof ==
    /\ pc = "loop"
    /\ LoopCond
    /\ LET mii_data == Read(source, pos, mii_type.SIZE)
       IN  /\ Len(mii_data) < mii_type.SIZE
           /\ pos' = pos + Len(mii_data)
           /\ is_active' = FALSE
    /\ UNCHANGED <<mii_type, source, source_exists, denied, pc, mii_count,
                   extracted_files, fs, dir_exists, raised, written>>
    /\ UNCHANGED <<callVars, cliVars>>

\* lines 49-56: an empty record is skipped
ScanSkip ==
    /\ pc = "loop"
    /\ LoopCond
    /\ LET mii_data == Read(source, pos, mii_type.SIZE)
       IN  /\ Len(mii_data) >= mii_type.SIZE
           /\ IsEmptyMii(mii_data)
           /\ pos' = pos + Len(mii_data)
    /\ UNCHANGED <<mii_type, source, source_exists, denied, pc, mii_count,
                   is_active, extracted_files, fs, dir_exists, raised, written>>
    /\ UNCHANGED <<callVars, cliVars>>

\* lines 49-65: a record is written to its own file
ScanEmit ==
    /\ pc = "loop"
    /\ LoopCond
    /\ "write" \notin denied
    /\ LET mii_data == Read(source, pos, mii_type.SIZE)
           output_path == OutputPath(mii_type.PREFIX, mii_count)
       IN  /\ Len(mii_data) >= mii_type.SIZE
           /\ ~IsEmptyMii(mii_data)
           /\ pos' = pos + Len(mii_data)
           /\ fs' = [p \in DOMAIN fs \cup {output_path} |->
                        IF p = output_path THEN FileContent(mii_data) ELSE fs[p]]
           /\ written' = Append(written, [path |-> output_path,
                                           content |-> FileContent(mii_data),
                                           at |-> pos])
           /\ extracted_files' = Append(extracted_files, output_path)
           /\ mii_count' = mii_count + 1
    /\ UNCHANGED <<mii_type, source, source_exists, denied, pc, is_active,
                   dir_exists, raised>>
    /\ UNCHANGED <<callVars, cliVars>>

\* lines 61, 67-68: open(output_path, "wb") is rejected
ScanWriteDenied ==
    /\ pc = "loop"
    /\ LoopCond
    /\ "write" \in denied
    /\ LET mii_data == Read(source, pos, mii_type.SIZE)
       IN  /\ Len(mii_data) >= mii_type.SIZE
           /\ ~IsEmptyMii(mii_data)
           /\ pos' = pos + Len(mii_data)
    /\ pc' = "raised"
    /\ raised' = "MiiExtractionError"
    /\ UNCHANGED <<mii_type, source, source_exists, denied, mii_count,
                   is_active, extracted_files, fs, dir_exists, written>>
    /\ UNCHANGED <<callVars, cliVars>>

\* lines 48, 70: the loop condition fails and the list is returned
ScanReturn ==
    /\ pc = "loop"
    /\ ~LoopCond
    /\ pc' = "returned"
    /\ UNCHANGED <<mii_type, source, source_exists, denied, pos, mii_count,
                   is_active, extracted_files, fs, dir_exists, raised, written>>
    /\ UNCHANGED <<callVars, cliVars>>

(***************************************************************************)
(* reader.py: the field decoder.  A decoded string is a sequence of code   *)
(* points.                                                                 *)
(***************************************************************************)
RecordSizes == {74, 92}
NameLen == 20

\* self.colors
colors == <<"Red", "Orange", "Yellow", "Green", "DarkGreen", "Blue",
            "LightBlue", "Pink", "Purple", "Brown", "White", "Black">>

Returned(v) == [ok |-> TRUE, value |-> v]
Raised(e, m) == [ok |-> FALSE, exc |-> e, msg |-> m]

\* string_data.find(b"\x00\x00"): the lowest byte offset of two zero bytes, or -1
Find00(b) ==
    LET hits == { i \in 0..(Len(b) - 2) : b[i + 1] = 0 /\ b[i + 2] = 0 }
    IN  IF hits = {} THEN -1 ELSE CHOOSE i \in hits : \A j \in hits : i <= j

IsHighSurrogate(u) == u >= 55296 /\ u <= 56319
IsLowSurrogate(u) == u >= 56320 /\ u <= 57343

\* bytes.decode("utf-16be") from byte offset i on, acc holding the code
\* points decoded so far; strict, so an odd length or an unpaired surrogate
\* raises UnicodeDecodeError
RECURSIVE DecodeFrom(_, _, _)
DecodeFrom(b, i, acc) ==
    IF i >= Len(b) THEN Returned(acc)
    ELSE IF i + 2 > Len(b) THEN Raised("UnicodeDecodeError", "")
    ELSE LET u == b[i + 1] * 256 + b[i + 2]
         IN  IF IsLowSurrogate(u) THEN Raised("UnicodeDecodeError", "")
             ELSE IF ~IsHighSurrogate(u) THEN DecodeFrom(b, i + 2, Append(acc, u))
             ELSE IF i + 4 > Len(b) THEN Raised("UnicodeDecodeError", "")
             ELSE LET u2 == b[i + 3] * 256 + b[i + 4]
                  IN  IF ~IsLowSurrogate(u2) THEN Raised("UnicodeDecodeError", "")
                      ELSE DecodeFrom(b, i + 4,
                               Append(acc, 65536 + (u - 55296) * 1024 + (u2 - 56320)))

DecodeUtf16be(b) == DecodeFrom(b, 0, <<>>)

\* str.rstrip("\x00")
RECURSIVE RstripNul(_)
RstripNul(str) ==
    IF str # <<>> /\ str[Len(str)] = 0
    THEN RstripNul(SubSeq(str, 1, Len(str) - 1)) ELSE str

\* the truncation of string_data at the first null terminator
Truncate(string_data) ==
    LET null_pos == Find00(string_data)
    IN  IF null_pos # -1
        THEN Slice(string_data, 0,
                   (IF null_pos % 2 # 0 THEN null_pos - 1 ELSE null_pos) + 2)
        ELSE string_data

read_string(d, offset, length) ==
    LET decoded == DecodeUtf16be(Truncate(Slice(d, offset, offset + length)))
    IN  IF decoded.ok THEN Returned(RstripNul(decoded.value)) ELSE decoded

read_mii_name(d) == read_string(d, 2, NameLen)

read_creator_name(d) == read_string(d, 54, NameLen)

\* "".join(format(b, "08b") for b in metadata_bytes), as a sequence of characters
BinaryStr(metadata_bytes) ==
    IF metadata_bytes = <<>> THEN <<>>
    ELSE FormatInt(metadata_bytes[1], 2, 8)
         \o (IF Len(metadata_bytes) > 1 THEN FormatInt(metadata_bytes[2], 2, 8)
             ELSE <<>>)

\* the gender taken from bit 0 instead of bit 1
read_mii_metadata_GirlBit0(d) ==
    LET binary_str == BinaryStr(Slice(d, 0, 2))
        is_girl == ParseInt(Slice(binary_str, 0, 1), 2)
        birth_month == ParseInt(Slice(binary_str, 2, 6), 2)
        birth_day == ParseInt(Slice(binary_str, 6, 11), 2)
        favorite_color == ParseInt(Slice(binary_str, 11, 15), 2)
        is_favorite == ParseInt(Slice(binary_str, 15, 16), 2)
    IN  <<is_girl, birth_month, birth_day, favorite_color, is_favorite>>

read_mii_metadata(d) ==
    LET binary_str == BinaryStr(Slice(d, 0, 2))
        is_girl == ParseInt(Slice(binary_str, 1, 2), 2)
        birth_month == ParseInt(Slice(binary_str, 2, 6), 2)
        birth_day == ParseInt(Slice(binary_str, 6, 11), 2)
        favorite_color == ParseInt(Slice(binary_str, 11, 15), 2)
        is_favorite == ParseInt(Slice(binary_str, 15, 16), 2)
    IN  <<is_girl, birth_month, birth_day, favorite_color, is_favorite>>

read_mii_id(d) == Slice(d, 24, 28)

\* the last table entry left out of the range test
get_color_name_ShortTable(color_index) ==
    IF 0 <= color_index /\ color_index < Len(colors) - 1
    THEN colors[color_index + 1]
    ELSE "Unknown (" \o ToString(color_index) \o ")"

get_color_name(color_index) ==
    IF 0 <= color_index /\ color_index < Len(colors)
    THEN colors[color_index + 1]
    ELSE "Unknown (" \o ToString(color_index) \o ")"

\* bytes.hex(): two lower-case hexadecimal digits for every byte
RECURSIVE Hex(_)
Hex(b) == IF b = <<>> THEN <<>> ELSE FormatInt(Head(b), 16, 2) \o Hex(Tail(b))

\* str.upper() on a sequence of digit characters
Upper(chars) == [i \in 1..Len(chars) |-> UpperChars[CharValue(chars[i]) + 1]]

\* the code points of "Unnamed" and of "Unknown"
Unnamed == <<85, 110, 110, 97, 109, 101, 100>>
UnknownCreator == <<85, 110, 107, 110, 111, 119, 110>>

read_all_metadata(d) ==
    LET mii_name == read_mii_name(d)
        creator_name == read_creator_name(d)
        metadata == read_mii_metadata(d)
        mii_id == read_mii_id(d)
        color_name == get_color_name(metadata[4])
    IN  IF ~mii_name.ok THEN mii_name
        ELSE IF ~creator_name.ok THEN creator_name
        ELSE Returned(
          [mii_name |-> IF mii_name.value # <<>> THEN mii_name.value ELSE Unnamed,
           creator_name |-> IF creator_name.value # <<>> THEN creator_name.value
                            ELSE UnknownCreator,
           is_girl |-> metadata[1],
           gender |-> IF metadata[1] # 0 THEN "Female" ELSE "Male",
           birth_month |-> metadata[2],
           birth_day |-> metadata[3],
           birthday |-> IF metadata[2] # 0 /\ metadata[3] # 0
                        THEN ToString(metadata[2]) \o "/" \o ToString(metadata[3])
                        ELSE "Not set",
           favorite_color |-> color_name,
           favorite_color_index |-> metadata[4],
           is_favorite |-> metadata[5],
           mii_id |-> Join(Upper(Hex(mii_id)))])

(***************************************************************************)
(* timestamp.py: the timestamp decoder.  A datetime is the ordinal of its  *)
(* day (0001-01-01 is day 1) and the second within that day.               *)
(***************************************************************************)
\* every size but 74 taken for a 3DS/WiiU file
get_mii_mode_NoError(filename, file_size) ==
    IF file_size = 74 THEN Returned(TRUE) ELSE Returned(FALSE)

get_mii_mode(filename, file_size) ==
    IF file_size = 74 THEN Returned(TRUE)
    ELSE IF file_size = 92 THEN Returned(FALSE)
    ELSE Raised("ValueError",
                filename \o "'s format is unknown (size: "
                         \o ToString(file_size) \o ")")

\* the two multipliers exchanged
multiplier_Swapped(is_wii_mii) == IF is_wii_mii THEN 2 ELSE 4

multiplier(is_wii_mii) == IF is_wii_mii THEN 4 ELSE 2

seek_pos(is_wii_mii) == IF is_wii_mii THEN 24 ELSE 12

\* str_id[1:] of the hexadecimal digits of the four bytes read
StrIdTail(str_id) == Slice(str_id, 1, Len(str_id))

get_mii_seconds(file, is_wii_mii) ==
    LET str_id == Hex(Read(file, seek_pos(is_wii_mii), 4))
        tail == StrIdTail(str_id)
    IN  IF tail = <<>> THEN Raised("ValueError", "invalid literal for int()")
        ELSE Returned(ParseInt(tail, 16) * multiplier(is_wii_mii))

IsLeap(y) == y % 4 = 0 /\ (y % 100 # 0 \/ y % 400 = 0)

DaysInMonth(y, m) ==
    IF m = 2 THEN (IF IsLeap(y) THEN 29 ELSE 28)
    ELSE IF m \in {4, 6, 9, 11} THEN 30 ELSE 31

RECURSIVE DaysBeforeMonth(_, _)
DaysBeforeMonth(y, m) ==
    IF m = 1 THEN 0 ELSE DaysBeforeMonth(y, m - 1) + DaysInMonth(y, m - 1)

DaysBeforeYear(y) ==
    (y - 1) * 365 + ((y - 1) \div 4) - ((y - 1) \div 100) + ((y - 1) \div 400)

\* datetime(y, m, d)
Datetime(y, m, d) ==
    [ordinal |-> DaysBeforeYear(y) + DaysBeforeMonth(y, m) + d, second |-> 0]

\* the epoch of each console
base_date(is_wii_mii) ==
    IF is_wii_mii THEN Datetime(2006, 1, 1) ELSE Datetime(2010, 1, 1)

\* datetime + timedelta(seconds=s)
AddSeconds(dt, s) ==
    [ordinal |-> dt.ordinal + ((dt.second + s) \div 86400),
     second |-> (dt.second + s) % 86400]

get_mii_datetime(seconds, is_wii_mii) == AddSeconds(base_date(is_wii_mii), seconds)

(***************************************************************************)
(* The files the decoders are applied to.                                  *)
(***************************************************************************)
NamePrefixLen == 6

NameBytes == {0, 65, 216}
HeaderBytes == 0..255
TimestampBytes == {0, 15, 100, 240, 255}
FileSizes == {0, 26, 50, 73, 74, 75, 91, 92, 93}
ColorArgs == -1..16
filename == "a.mii"

\* a record: the header, the name field, the identifier and the creator
\* field at their offsets, zero elsewhere
MkRecord(size, header, name, id, creator) ==
    [i \in 1..size |->
        LET k == i - 1
        IN  IF k < 2 THEN header[k + 1]
            ELSE IF k < 22 THEN (IF k - 1 <= Len(name) THEN name[k - 1] ELSE 0)
            ELSE IF k >= 24 /\ k < 28 THEN id[k - 23]
            ELSE IF k >= 54 /\ k < 74
                 THEN (IF k - 53 <= Len(creator) THEN creator[k - 53] ELSE 0)
            ELSE 0]

SampleId == <<18, 171, 205, 239>>

CreatorFields ==
    { <<>>, <<0, 65>>, [i \in 1..NameLen |-> 65], <<216, 65, 220, 65>>, <<220, 0>> }

SampleHeaders ==
    { <<h0, h1>> : h0 \in {0, 255}, h1 \in { 2 * c : c \in 0..15 } \cup {255} }

\* a file of the size whose bytes differ from place to place, with four
\* chosen bytes at the window
TimestampFile(size, window, quad) ==
    [i \in 1..size |->
        IF i - 1 >= window /\ i - 1 < window + 4 THEN quad[i - window]
        ELSE (i * 7 + 3) % 256]

ScanIdle ==
    /\ mii_type = [OFFSET |-> 0, SIZE |-> 1, LIMIT |-> 0, PADDING |-> <<>>,
                   PREFIX |-> "WII_PL"]
    /\ source = <<>>
    /\ source_exists = FALSE
    /\ denied = {}
    /\ pc = "idle"
    /\ pos = 0
    /\ mii_count = 0
    /\ is_active = TRUE
    /\ extracted_files = <<>>
    /\ fs = <<>>
    /\ dir_exists = FALSE
    /\ raised = "none"
    /\ written = <<>>

CallIdle ==
    /\ data = <<>>
    /\ call = "none"
    /\ arg = <<>>
    /\ ret = <<>>

CliIdle ==
    /\ type_option = "None"
    /\ cli_pc = "idle"
    /\ mii_enum = 0
    /\ total_extracted = 0
    /\ exit_status = -1
    /\ outcomes = <<>>

Init == ScanInit /\ CallIdle /\ CliIdle

\* records with any name field and a few creator fields, and records with
\* a header for every colour index
ReaderInit ==
    /\ ScanIdle
    /\ CliIdle
    /\ \/ \E name \in [1..NamePrefixLen -> NameBytes], creator \in CreatorFields :
             data = MkRecord(74, <<0, 0>>, name, SampleId, creator)
       \/ \E size \in RecordSizes, header \in SampleHeaders :
             data = MkRecord(size, header, <<0, 65>>, SampleId, <<>>)
    /\ call = "none"
    /\ arg = <<>>
    /\ ret = <<>>

\* records with every header
HeaderInit ==
    /\ ScanIdle
    /\ CliIdle
    /\ \E h0 \in HeaderBytes, h1 \in HeaderBytes :
          data = MkRecord(74, <<h0, h1>>, <<0, 65>>, SampleId, <<>>)
    /\ call = "none"
    /\ arg = <<>>
    /\ ret = <<>>

TimestampInit ==
    /\ ScanIdle
    /\ CliIdle
    /\ \E size \in FileSizes, window \in {12, 24}, quad \in [1..4 -> TimestampBytes] :
          data = TimestampFile(size, window, quad)
    /\ call = "none"
    /\ arg = <<>>
    /\ ret = <<>>

(***************************************************************************)
(* The calls of the decoders.                                              *)
(***************************************************************************)
ReadMiiName ==
    /\ pc = "idle"
    /\ call' = "read_mii_name"
    /\ arg' = <<>>
    /\ ret' = read_mii_name(data)
    /\ UNCHANGED <<data, scanVars, cliVars>>

ReadCreatorName ==
    /\ pc = "idle"
    /\ call' = "read_creator_name"
    /\ arg' = <<>>
    /\ ret' = read_creator_name(data)
    /\ UNCHANGED <<data, scanVars, cliVars>>

ReadMiiMetadata ==
    /\ pc = "idle"
    /\ call' = "read_mii_metadata"
    /\ arg' = <<>>
    /\ ret' = Returned(read_mii_metadata(data))
    /\ UNCHANGED <<data, scanVars, cliVars>>

ReadMiiId ==
    /\ pc = "idle"
    /\ call' = "read_mii_id"
    /\ arg' = <<>>
    /\ ret' = Returned(read_mii_id(data))
    /\ UNCHANGED <<data, scanVars, cliVars>>

GetColorName ==
    /\ pc = "idle"
    /\ \E color_index \in ColorArgs :
          /\ call' = "get_color_name"
          /\ arg' = <<color_index>>
          /\ ret' = Returned(get_color_name(color_index))
    /\ UNCHANGED <<data, scanVars, cliVars>>

ReadAllMetadata ==
    /\ pc = "idle"
    /\ call' = "read_all_metadata"
    /\ arg' = <<>>
    /\ ret' = read_all_metadata(data)
    /\ UNCHANGED <<data, scanVars, cliVars>>

\* main.py, times: file_size = mii_file.stat().st_size, then get_mii_mode
GetMiiMode ==
    /\ pc = "idle"
    /\ call' = "get_mii_mode"
    /\ arg' = <<filename, Len(data)>>
    /\ ret' = get_mii_mode(filename, Len(data))
    /\ UNCHANGED <<data, scanVars, cliVars>>

GetMiiSeconds ==
    /\ pc = "idle"
    /\ \E is_wii_mii \in BOOLEAN :
          /\ call' = "get_mii_seconds"
          /\ arg' = <<is_wii_mii>>
          /\ ret' = get_mii_seconds(data, is_wii_mii)
    /\ UNCHANGED <<data, scanVars, cliVars>>

\* main.py, times: the seconds just read, with the same mode
GetMiiDatetime ==
    /\ pc = "idle"
    /\ call = "get_mii_seconds"
    /\ ret.ok
    /\ call' = "get_mii_datetime"
    /\ arg' = <<ret.value, arg[1]>>
    /\ ret' = Returned(get_mii_datetime(ret.value, arg[1]))
    /\ UNCHANGED <<data, scanVars, cliVars>>

(***************************************************************************)
(* The specifications.                                                     *)
(***************************************************************************)
Next ==
    \/ StartNotFound
    \/ StartMkdirDenied
    \/ StartOpenDenied
    \/ StartOk
    \/ ScanEof
    \/ ScanSkip
    \/ ScanEmit
    \/ ScanWriteDenied
    \/ ScanReturn

Spec == Init /\ [][Next]_vars

\* the scan as a sequential program: a step that can be taken is taken
FairSpec == Init /\ [][Next]_vars /\ WF_vars(Next)

ReaderNext ==
    \/ ReadMiiName
    \/ ReadCreatorName
    \/ ReadMiiMetadata
    \/ ReadMiiId
    \/ GetColorName
    \/ ReadAllMetadata

ReaderSpec == ReaderInit /\ [][ReaderNext]_vars

HeaderNext ==
    \/ ReadMiiMetadata
    \/ ReadAllMetadata

HeaderSpec == HeaderInit /\ [][HeaderNext]_vars

TimestampNext ==
    \/ GetMiiMode
    \/ GetMiiSeconds
    \/ GetMiiDatetime

TimestampSpec == TimestampInit /\ [][TimestampNext]_vars

(***************************************************************************)
(* Properties of the record scanner, under Spec.                           *)
(***************************************************************************)
\* the SIZE bytes at position p are all there
CompleteSlotAt(p) == p + mii_type.SIZE <= Len(source)

\* the bytes of the slot at position p
SlotAt(p) == SubSeq(source, p + 1, p + mii_type.SIZE)

\* the slot at position p is complete and every byte of it is zero
ZeroSlotAt(p) ==
    /\ CompleteSlotAt(p)
    /\ \A i \in 1..mii_type.SIZE : source[p + i] = 0

\* C1: a loop iteration that reads a slot whose SIZE bytes are all zero
\* writes no file, appends nothing to the list and leaves mii_count as it
\* was; the scan goes on with the next slot.
C1_ZeroSlotSkipped ==
    [][ (pc = "loop" /\ pos' # pos /\ ZeroSlotAt(pos))
        => /\ fs' = fs
           /\ written' = written
           /\ extracted_files' = extracted_files
           /\ mii_count' = mii_count
           /\ pc' = "loop"
           /\ pos' = pos + mii_type.SIZE ]_vars

\* a scan that met a zero slot first and gave sequence number 0 to the
\* record after it
C1_Witness ==
    /\ pc = "returned"
    /\ ZeroSlotAt(mii_type.OFFSET)
    /\ Len(written) >= 1
    /\ written[1].at > mii_type.OFFSET
    /\ written[1].path = OutputPath(mii_type.PREFIX, 0)

\* C2: in every state of the scan the number of files written and the
\* length of the list equal mii_count, which is at most LIMIT; with LIMIT 0
\* the returned list is empty.
C2_CountWithinLimit ==
    /\ Len(written) = mii_count
    /\ Cardinality({ written[i].path : i \in DOMAIN written }) = mii_count
    /\ Len(extracted_files) = mii_count
    /\ mii_count <= mii_type.LIMIT
    /\ (pc = "returned" /\ mii_type.LIMIT = 0) => extracted_files = <<>>

\* a scan that stopped at LIMIT with a further non-zero record left unread
C2_Witness ==
    /\ pc = "returned"
    /\ mii_type.LIMIT > 0
    /\ Len(extracted_files) = mii_type.LIMIT
    /\ CompleteSlotAt(pos)
    /\ ~ZeroSlotAt(pos)

\* C3: every file written holds the SIZE bytes read for its record, then
\* the padding, and nothing else.
C3_FileIsRecordPlusPadding ==
    \A i \in DOMAIN written :
        LET w == written[i]
            size == mii_type.SIZE
        IN  /\ Len(w.content) = size + Len(mii_type.PADDING)
            /\ SubSeq(w.content, 1, size) = SlotAt(w.at)
            /\ SubSeq(w.content, size + 1, Len(w.content)) = mii_type.PADDING
            /\ w.path \in DOMAIN fs
            /\ fs[w.path] = w.content

\* a file written with a padding that is not empty
C3_Witness ==
    /\ Len(written) >= 1
    /\ mii_type.PADDING # <<>>
    /\ mii_type.SIZE > 1
    /\ written[1].content # mii_type.PADDING \o SlotAt(written[1].at)

\* the positions of the complete slots from OFFSET on, in source order
SlotPositions ==
    IF Len(source) < mii_type.OFFSET THEN <<>>
    ELSE [j \in 1..((Len(source) - mii_type.OFFSET) \div mii_type.SIZE) |->
             mii_type.OFFSET + (j - 1) * mii_type.SIZE]

\* those of them whose slot is not all zero
NonZeroPositions == SelectSeq(SlotPositions, LAMBDA p : ~ZeroSlotAt(p))

\* the name the i-th file is to have, i counted from 0
ExpectedPath(i) ==
    "out/" \o mii_type.PREFIX
           \o (IF i < 10 THEN "0000" ELSE IF i < 100 THEN "000"
               ELSE IF i < 1000 THEN "00" ELSE IF i < 10000 THEN "0" ELSE "")
           \o ToString(i) \o ".mii"

\* C4: the returned list has min(LIMIT, number of non-zero complete slots)
\* entries; entry i is output_dir/<PREFIX><i on 5 digits>.mii and that file
\* holds the i-th non-zero complete slot, followed by the padding.
C4_ConsecutiveSequence ==
    pc = "returned" =>
        /\ Len(extracted_files) = Min(mii_type.LIMIT, Len(NonZeroPositions))
        /\ \A i \in 1..Len(extracted_files) :
              /\ extracted_files[i] = ExpectedPath(i - 1)
              /\ extracted_files[i] \in DOMAIN fs
              /\ SubSeq(fs[extracted_files[i]], 1, mii_type.SIZE)
                    = SlotAt(NonZeroPositions[i])

\* three slots, one of them zero, and a LIMIT that does not cut the scan
\* short: two files, numbered 0 and 1
C4_Witness ==
    /\ pc = "returned"
    /\ Len(SlotPositions) = 3
    /\ Len(NonZeroPositions) = 2
    /\ mii_type.LIMIT >= 2
    /\ extracted_files = <<ExpectedPath(0), ExpectedPath(1)>>

(***************************************************************************)
(* Properties of the field decoder, under ReaderSpec and HeaderSpec.       *)
(***************************************************************************)
\* the 16-bit unit k (from 0) of the name field
NameUnit(k) == data[2 + 2 * k + 1] * 256 + data[2 + 2 * k + 2]

\* the name field holds three characters, none of them NUL or half of a
\* surrogate pair, and zeros after them
IsThreeCharName ==
    /\ \A k \in 0..2 : /\ NameUnit(k) # 0
                       /\ ~IsHighSurrogate(NameUnit(k))
                       /\ ~IsLowSurrogate(NameUnit(k))
    /\ \A i \in 9..22 : data[i] = 0

\* C5: a 20-byte name field of three non-NUL characters and zero fill is
\* decoded to exactly those three characters.
C5_ThreeCharsDecoded ==
    (call = "read_mii_name" /\ IsThreeCharName)
        => ret = Returned(<<NameUnit(0), NameUnit(1), NameUnit(2)>>)

\* C6: read_all_metadata returns a metadata value for every record of 74
\* or 92 bytes.
C6_DecodeNeverFails ==
    (call = "read_all_metadata" /\ Len(data) \in RecordSizes) => ret.ok

\* the header as a 16-bit big-endian value
HeaderValue == data[1] * 256 + data[2]

\* C7: read_mii_metadata returns [(v >> 14) & 1, (v >> 10) & 15,
\* (v >> 5) & 31, (v >> 1) & 15, v & 1] for the header value v; 0x0000 gives
\* [0,0,0,0,0] and 0xFFFF gives [1,15,31,15,1].
C7_HeaderBitfields ==
    call = "read_mii_metadata" =>
        LET v == HeaderValue
        IN  /\ ret = Returned(<<(v \div 16384) % 2, (v \div 1024) % 16,
                                (v \div 32) % 32, (v \div 2) % 16, v % 2>>)
            /\ v = 0 => ret.value = <<0, 0, 0, 0, 0>>
            /\ v = 65535 => ret.value = <<1, 15, 31, 15, 1>>
            /\ ret.value[2] \in 0..15
            /\ ret.value[3] \in 0..31
            /\ ret.value[4] \in 0..15

\* the header 0x8000: only the ignored bit is set
C7_Witness ==
    /\ call = "read_mii_metadata"
    /\ data[1] = 128
    /\ data[2] = 0
    /\ ret.value = <<0, 0, 0, 0, 0>>

\* what the lookup is to give for an index of 0..15
ExpectedColor(i) ==
    IF i <= 11 THEN colors[i + 1] ELSE "Unknown (" \o ToString(i) \o ")"

\* C10: get_color_name returns the table entry for 0..11 (0 is "Red", 11
\* is "Black") and an "Unknown" result with the index for 12..15; the
\* index read_all_metadata takes from a header is always in 0..15.
C10_ColorLookupTotal ==
    /\ Len(colors) = 12
    /\ (call = "get_color_name" /\ arg[1] \in 0..15) =>
          /\ ret = Returned(ExpectedColor(arg[1]))
          /\ arg[1] = 0 => ret.value = "Red"
          /\ arg[1] = 11 => ret.value = "Black"
          /\ arg[1] = 13 => ret.value = "Unknown (13)"
    /\ (call = "read_all_metadata" /\ ret.ok) =>
          /\ ret.value.favorite_color_index \in 0..15
          /\ ret.value.favorite_color_index = (HeaderValue \div 2) % 16
          /\ ret.value.favorite_color
                = ExpectedColor(ret.value.favorite_color_index)

\* a record whose header carries the colour index 13
C10_Witness ==
    /\ call = "read_all_metadata"
    /\ ret.ok
    /\ ret.value.favorite_color_index = 13
    /\ ret.value.favorite_color = "Unknown (13)"

(***************************************************************************)
(* Properties of the timestamp decoder, under TimestampSpec.               *)
(***************************************************************************)
\* C8: get_mii_mode returns True exactly for 74 bytes, False exactly for
\* 92 bytes, and for any other length raises an error that carries the
\* length.
C8_ModeFromSize ==
    call = "get_mii_mode" =>
        LET size == Len(data)
        IN  /\ arg = <<filename, size>>
            /\ (ret.ok /\ ret.value = TRUE) <=> size = 74
            /\ (ret.ok /\ ret.value = FALSE) <=> size = 92
            /\ ret.ok => ret.value \in BOOLEAN
            /\ size \notin {74, 92} =>
                  /\ ~ret.ok
                  /\ ret.exc = "ValueError"
                  /\ ret.msg = "a.mii's format is unknown (size: "
                                  \o ToString(size) \o ")"

\* a file of 50 bytes
C8_Witness ==
    /\ call = "get_mii_mode"
    /\ Len(data) = 50
    /\ ret = Raised("ValueError", "a.mii's format is unknown (size: 50)")

\* the low 28 bits of the big-endian 32-bit value at the offset: the top
\* four bits of its first byte are left out
Low28(off) ==
    (data[off + 1] % 16) * 16777216 + data[off + 2] * 65536
        + data[off + 3] * 256 + data[off + 4]

\* C9: get_mii_seconds returns (v mod 2^28) * 4 for the value v at 0x18
\* (EarlyConsole) or (v mod 2^28) * 2 for the value at 0xC (LaterConsole);
\* get_mii_datetime returns 2006-01-01 or 2010-01-01 plus that many seconds.
C9_SecondsAndDatetime ==
    /\ (call = "get_mii_seconds" /\ Len(data) \in RecordSizes) =>
          LET off == IF arg[1] THEN 24 ELSE 12
          IN  /\ ret = Returned(Low28(off) * (IF arg[1] THEN 4 ELSE 2))
              /\ ret.value < (IF arg[1] THEN 1073741824 ELSE 536870912)
    /\ call = "get_mii_datetime" =>
          LET epoch == IF arg[2] THEN 732312 ELSE 733773
          IN  /\ ret.value.ordinal = epoch + (arg[1] \div 86400)
              /\ ret.value.second = arg[1] % 86400

\* an EarlyConsole record whose value has the low 28 bits 100 and a top
\* digit that is not zero: 400 seconds after 2006-01-01
C9_Witness ==
    /\ call = "get_mii_datetime"
    /\ Len(data) = 74
    /\ arg = <<400, TRUE>>
    /\ <<data[25], data[26], data[27], data[28]>> = <<240, 0, 0, 100>>
    /\ ret.value = [ordinal |-> 732312, second |-> 400]

(***************************************************************************)
(* Failures and termination of the record scanner.                         *)
(***************************************************************************)
\* C11: a filesystem access rejected for access rights ends the scan with
\* MiiExtractionError and with no other exception.
C11_PermissionDeniedSurfaced ==
    (pc = "raised" /\ source_exists) => raised = "MiiExtractionError"

\* every complete slot from OFFSET on is zero
OnlyZeroSlots == NonZeroPositions = <<>>

\* C13: the scan of a finite source ends, and returns when nothing is
\* rejected; a read of fewer than SIZE bytes ends the loop with no error and
\* no file written; a source of zero slots only gives the empty list.
C13_ScanTerminates ==
    /\ (pc = "start") ~> (pc \in {"returned", "raised"})
    /\ (pc = "start" /\ source_exists /\ denied = {}) ~> (pc = "returned")
    /\ [][ (pc = "loop" /\ ~CompleteSlotAt(pos))
           => /\ written' = written
              /\ fs' = fs
              /\ extracted_files' = extracted_files
              /\ mii_count' = mii_count
              /\ raised' = "none"
              /\ pc' = "returned" \/ (pc' = "loop" /\ ~is_active') ]_vars
    /\ [](pc = "returned" /\ OnlyZeroSlots => extracted_files = <<>>)

\* a scan that returned after reading a trailing partial record
C13_Witness ==
    /\ pc = "returned"
    /\ ~is_active
    /\ Len(source) > mii_type.OFFSET
    /\ (Len(source) - mii_type.OFFSET) % mii_type.SIZE # 0
    /\ pos = Len(source)
    /\ Len(extracted_files) < mii_type.LIMIT

\* C14: when the source does not exist the scan raises MiiExtractionError
\* and nothing else happens: no directory is made, no file is written or
\* overwritten, no list is returned.
C14_NotFoundNoSideEffect ==
    [][ (pc = "start" /\ ~source_exists)
        => /\ pc' = "raised"
           /\ raised' = "MiiExtractionError"
           /\ dir_exists' = dir_exists
           /\ fs' = fs
           /\ written' = written
           /\ extracted_files' = <<>> ]_vars

\* the scan of a missing source, stopped with the directory still absent
C14_Witness ==
    /\ pc = "raised"
    /\ raised = "MiiExtractionError"
    /\ ~source_exists
    /\ ~dir_exists
    /\ fs = <<>>
    /\ written = <<>>

(***************************************************************************)
(* main.py: the extract command.  It calls extract_miis_from_type, whose   *)
(* steps are the actions of the record scanner.                            *)
(***************************************************************************)
\* the members of MiiType, in the order of the enumeration
MiiMembers == <<"WII_PLAZA", "WII_PARADE", "WIIU_MAKER", "_3DS_MAKER">>

\* the variant of a member: small records, each member with its own prefix
MiiType(member) ==
    [OFFSET |-> 0, SIZE |-> 1, LIMIT |-> MaxLimit, PADDING |-> <<>>,
     PREFIX |-> CASE member = "WII_PLAZA" -> "WII_PL"
                  [] member = "WII_PARADE" -> "WII_PA"
                  [] member = "WIIU_MAKER" -> "WIIU_MA"
                  [] OTHER -> "3DS_MA"]

TypeOptions ==
    {"None", "wii-plaza", "wii-parade", "wiiu-maker", "3ds-maker", "bogus"}

\* mii_type.upper().replace("-", "_")
EnumName(option) ==
    CASE option = "wii-plaza" -> "WII_PLAZA"
      [] option = "wii-parade" -> "WII_PARADE"
      [] option = "wiiu-maker" -> "WIIU_MAKER"
      [] option = "3ds-maker" -> "3DS_MAKER"
      [] OTHER -> "BOGUS"

\* the place in MiiType of the member the option names, 0 for a KeyError
SelectedType(option) ==
    LET enum_name == EnumName(option)
        member == IF enum_name = "3DS_MAKER" THEN "_3DS_MAKER" ELSE enum_name
        places == { i \in DOMAIN MiiMembers : MiiMembers[i] = member }
    IN  IF places = {} THEN 0 ELSE CHOOSE i \in places : TRUE

\* the sources a call may find
CliSources == { <<>>, <<1>>, <<0, 1>>, <<1, 0, 1>> }

\* extract_miis_from_type(member, ...) is entered: its source and what the
\* system rejects are what the call finds; output_dir is as the calls
\* before left it
CallExtract(member) ==
    /\ mii_type' = MiiType(member)
    /\ source' \in CliSources
    /\ source_exists' \in BOOLEAN
    /\ denied' \in Denials
    /\ pc' = "start"
    /\ pos' = 0
    /\ mii_count' = 0
    /\ is_active' = TRUE
    /\ extracted_files' = <<>>
    /\ raised' = "none"
    /\ written' = <<>>
    /\ UNCHANGED <<fs, dir_exists>>

\* how the call at hand ended
Outcome == IF pc = "returned" THEN "returned" ELSE raised

ExtractInit ==
    /\ mii_type = MiiType("WII_PLAZA")
    /\ source = <<>>
    /\ source_exists = FALSE
    /\ denied = {}
    /\ pc = "idle"
    /\ pos = 0
    /\ mii_count = 0
    /\ is_active = TRUE
    /\ extracted_files = <<>>
    /\ fs = <<>>
    /\ dir_exists \in BOOLEAN
    /\ raised = "none"
    /\ written = <<>>
    /\ CallIdle
    /\ type_option \in TypeOptions
    /\ cli_pc = "start"
    /\ mii_enum = 0
    /\ total_extracted = 0
    /\ exit_status = -1
    /\ outcomes = <<>>

\* lines 46-54, 78-81: --type names no member of MiiType
ExtractUnknownType ==
    /\ cli_pc = "start"
    /\ type_option # "None"
    /\ SelectedType(type_option) = 0
    /\ exit_status' = 1
    /\ cli_pc' = "done"
    /\ UNCHANGED <<type_option, mii_enum, total_extracted, outcomes>>
    /\ UNCHANGED <<scanVars, callVars>>

\* lines 46-66: --type names a member and its extraction is called
ExtractCallSelected ==
    /\ cli_pc = "start"
    /\ type_option # "None"
    /\ SelectedType(type_option) # 0
    /\ mii_enum' = SelectedType(type_option)
    /\ CallExtract(MiiMembers[SelectedType(type_option)])
    /\ cli_pc' = "calling"
    /\ UNCHANGED <<type_option, total_extracted, exit_status, outcomes>>
    /\ UNCHANGED callVars

\* lines 67-72: the extraction of the named type returned
ExtractSelectedReturned ==
    /\ cli_pc = "calling"
    /\ type_option # "None"
    /\ pc = "returned"
    /\ total_extracted' = Len(extracted_files)
    /\ outcomes' = Append(outcomes, Outcome)
    /\ exit_status' = 0
    /\ cli_pc' = "done"
    /\ pc' = "idle"
    /\ UNCHANGED <<type_option, mii_enum>>
    /\ UNCHANGED <<mii_type, source, source_exists, denied, pos, mii_count,
                   is_active, extracted_files, fs, dir_exists, raised, written>>
    /\ UNCHANGED callVars

\* lines 74-76: the extraction of the named type raised MiiExtractionError
ExtractSelectedFailed ==
    /\ cli_pc = "calling"
    /\ type_option # "None"
    /\ pc = "raised"
    /\ raised = "MiiExtractionError"
    /\ outcomes' = Append(outcomes, Outcome)
    /\ exit_status' = 1
    /\ cli_pc' = "done"
    /\ pc' = "idle"
    /\ UNCHANGED <<type_option, mii_enum, total_extracted>>
    /\ UNCHANGED <<mii_type, source, source_exists, denied, pos, mii_count,
                   is_active, extracted_files, fs, dir_exists, raised, written>>
    /\ UNCHANGED callVars

\* lines 64, 95: an exception that no except clause names leaves the
\* command; the process ends with status 1
ExtractUncaught ==
    /\ cli_pc = "calling"
    /\ pc = "raised"
    /\ raised # "MiiExtractionError"
    /\ outcomes' = Append(outcomes, Outcome)
    /\ exit_status' = 1
    /\ cli_pc' = "done"
    /\ pc' = "idle"
    /\ UNCHANGED <<type_option, mii_enum, total_extracted>>
    /\ UNCHANGED <<mii_type, source, source_exists, denied, pos, mii_count,
                   is_active, extracted_files, fs, dir_exists, raised, written>>
    /\ UNCHANGED callVars

\* lines 82-87: no --type, the loop over MiiType begins
ExtractAllStart ==
    /\ cli_pc = "start"
    /\ type_option = "None"
    /\ total_extracted' = 0
    /\ mii_enum' = 1
    /\ cli_pc' = "loop"
    /\ UNCHANGED <<type_option, exit_status, outcomes>>
    /\ UNCHANGED <<scanVars, callVars>>

\* lines 87-95: the extraction of the next member is called
ExtractAllCall ==
    /\ cli_pc = "loop"
    /\ mii_enum <= Len(MiiMembers)
    /\ CallExtract(MiiMembers[mii_enum])
    /\ cli_pc' = "calling"
    /\ UNCHANGED <<type_option, mii_enum, total_extracted, exit_status, outcomes>>
    /\ UNCHANGED callVars

\* lines 96-98: it returned and its files are counted
ExtractAllReturned ==
    /\ cli_pc = "calling"
    /\ type_option = "None"
    /\ pc = "returned"
    /\ total_extracted' = total_extracted + Len(extracted_files)
    /\ outcomes' = Append(outcomes, Outcome)
    /\ mii_enum' = mii_enum + 1
    /\ cli_pc' = "loop"
    /\ pc' = "idle"
    /\ UNCHANGED <<type_option, exit_status>>
    /\ UNCHANGED <<mii_type, source, source_exists, denied, pos, mii_count,
                   is_active, extracted_files, fs, dir_exists, raised, written>>
    /\ UNCHANGED callVars

\* the loop left with status 1 at the first MiiExtractionError
ExtractAllFailed_Exit ==
    /\ cli_pc = "calling"
    /\ type_option = "None"
    /\ pc = "raised"
    /\ raised = "MiiExtractionError"
    /\ outcomes' = Append(outcomes, Outcome)
    /\ exit_status' = 1
    /\ cli_pc' = "done"
    /\ pc' = "idle"
    /\ UNCHANGED <<type_option, mii_enum, total_extracted>>
    /\ UNCHANGED <<mii_type, source, source_exists, denied, pos, mii_count,
                   is_active, extracted_files, fs, dir_exists, raised, written>>
    /\ UNCHANGED callVars

\* lines 99-101: it raised MiiExtractionError, which is passed over
ExtractAllFailed ==
    /\ cli_pc = "calling"
    /\ type_option = "None"
    /\ pc = "raised"
    /\ raised = "MiiExtractionError"
    /\ outcomes' = Append(outcomes, Outcome)
    /\ mii_enum' = mii_enum + 1
    /\ cli_pc' = "loop"
    /\ pc' = "idle"
    /\ UNCHANGED <<type_option, total_extracted, exit_status>>
    /\ UNCHANGED <<mii_type, source, source_exists, denied, pos, mii_count,
                   is_active, extracted_files, fs, dir_exists, raised, written>>
    /\ UNCHANGED callVars

\* lines 103-105: the loop is over, the total is printed, the command ends
ExtractAllDone ==
    /\ cli_pc = "loop"
    /\ mii_enum > Len(MiiMembers)
    /\ exit_status' = 0
    /\ cli_pc' = "done"
    /\ UNCHANGED <<type_option, mii_enum, total_extracted, outcomes>>
    /\ UNCHANGED <<scanVars, callVars>>

ExtractNext ==
    \/ ExtractUnknownType
    \/ ExtractCallSelected
    \/ ExtractSelectedReturned
    \/ ExtractSelectedFailed
    \/ ExtractUncaught
    \/ ExtractAllStart
    \/ ExtractAllCall
    \/ ExtractAllReturned
    \/ ExtractAllFailed
    \/ ExtractAllDone
    \/ StartNotFound
    \/ StartMkdirDenied
    \/ StartOpenDenied
    \/ StartOk
    \/ ScanEof
    \/ ScanSkip
    \/ ScanEmit
    \/ ScanWriteDenied
    \/ ScanReturn

ExtractSpec == ExtractInit /\ [][ExtractNext]_vars

\* the claim as first stated: the command ends with a status that is not 0
\* whenever a call of extract_miis_from_type raised MiiExtractionError
C12_NonZeroExitOnFailure ==
    (cli_pc = "done" /\ \E i \in DOMAIN outcomes : outcomes[i] = "MiiExtractionError")
        => exit_status # 0

\* C12: with --type the command ends with a status that is not 0 whenever
\* the extraction fails; with no --type a MiiExtractionError of a variant is
\* passed over, every variant is tried and the status is 0, and only an
\* exception that is not MiiExtractionError gives a status that is not 0.
C12_ExitStatus ==
    cli_pc = "done" =>
        /\ type_option # "None" =>
              (exit_status # 0 <=> (outcomes = <<>> \/ outcomes[1] # "returned"))
        /\ type_option = "None" =>
              /\ exit_status = 0 <=>
                    \A i \in DOMAIN outcomes :
                        outcomes[i] \in {"returned", "MiiExtractionError"}
              /\ exit_status = 0 => Len(outcomes) = Len(MiiMembers)
              /\ exit_status # 0 => outcomes[Len(outcomes)] = "PermissionError"

\* no --type and every variant raised MiiExtractionError: status 0
C12_Witness ==
    /\ cli_pc = "done"
    /\ type_option = "None"
    /\ Len(outcomes) = Len(MiiMembers)
    /\ \A i \in DOMAIN outcomes : outcomes[i] = "MiiExtractionError"
    /\ exit_status = 0
    /\ total_extracted = 0

====
